---- MODULE Spec2Model ----
(***************************************************************************)
(* Article recommender of Hedredo/oc_p10.                                  *)
(*                                                                         *)
(* Two programs of the repository are modelled side by side:               *)
(*   - src/src/models/recommender.py: WeightedContentBasedRecommender, the *)
(*     engine behind src/src/functions/recommendation_api.py ("models");   *)
(*   - src/HttpRecommender: the Recommender class hierarchy used directly  *)
(*     ("lib") and through its HTTP trigger main ("http").                 *)
(*                                                                         *)
(* Three further specifications look at one part each: SpecApi at the      *)
(* threads of recommendation_api.main around the lazily built recommender, *)
(* SpecEval at Recommender.evaluate on a held-out set, SpecWeights at the  *)
(* recency weight of one click.                                            *)
(*                                                                         *)
(* Numbers.  Click timestamps are counted in half days, so that the        *)
(* sub-day part of a time difference is visible.  exp(-w_recency) is taken *)
(* to be 1/2 and exp(-w_position) to be 1/3, so every weight is a rational *)
(* number; a weight is kept as an integer numerator over a denominator     *)
(* that is the same for all rows of one user.  A profile is kept as the    *)
(* vector sum `num' and the divisor `div' the code divides it by.          *)
(* Popularities are kept as click counts (the common denominator is the    *)
(* number of training rows); NaN is the score -1.                          *)
(*                                                                         *)
(* Sorting.  sort_values uses the default kind "quicksort", which is not   *)
(* stable: the order among equal keys is any order.  nlargest keeps the    *)
(* first occurrences.                                                      *)
(***************************************************************************)
EXTENDS Integers, Sequences, FiniteSets, TLC

VARIABLES train_data, app, engine, obj, result, api, ev, wt

vars == <<train_data, app, engine, obj, result, api, ev, wt>>

\* ---------------------------------------------------------------- bounds
MaxTrain == 3
MaxK == 2
\* the clicks of a catalog behind the API, whose threads interleave
MaxApiTrain == 2
\* the rows of a held-out set
MaxTest == 2
\* the half days a split date or a click timestamp ranges over
MaxTime == 10

\* ------------------------------------------------------------ input data
\* The embeddings array: row i (0-based) is the vector of article i.  The
\* articles are 0..Len(EmbeddingsArray): the last one has no embedding.
EmbeddingsArray == << <<1, 0>>, <<0, 1>>, <<-1, 0>> >>

Dim == Len(EmbeddingsArray[1])

Items == 0..Len(EmbeddingsArray)

HasEmbeddingRow(a) == a + 1 \in DOMAIN EmbeddingsArray

EmbeddingOf(a) == EmbeddingsArray[a + 1]

\* category_id is an attribute of the article (articles_metadata)
CatOf(a) == a \div 2

\* the k of an HTTP request, when it is an integer
KArgs == (-1)..MaxK

\* the k of a direct call or of a constructor, when it is an integer
PositiveK == 1..MaxK

\* config.py: DEFAULT_SPLIT_DATE, in half days
DEFAULT_SPLIT_DATE == 2

\* ------------------------------------------------------------- utilities
Min(a, b) == IF a < b THEN a ELSE b

Max(a, b) == IF a > b THEN a ELSE b

RECURSIVE Pow(_, _)
Pow(b, e) == IF e <= 0 THEN 1 ELSE b * Pow(b, e - 1)

RECURSIVE SumSeq(_)
SumSeq(s) == IF s = <<>> THEN 0 ELSE Head(s) + SumSeq(Tail(s))

Range(s) == {s[i] : i \in DOMAIN s}

Zeros == [d \in 1..Dim |-> 0]

IsZero(v) == \A d \in DOMAIN v : v[d] = 0

Dot(a, b) == SumSeq([d \in 1..Dim |-> a[d] * b[d]])

Scale(v, w) == [d \in DOMAIN v |-> v[d] * w]

VecAdd(a, b) == [d \in DOMAIN a |-> a[d] + b[d]]

\* DataFrame.head(k) / Series.head(k): iloc[:k]
head(s, k) ==
    SubSeq(s, 1, IF k >= 0 THEN Min(k, Len(s)) ELSE Max(Len(s) + k, 0))

\* sort_values(ascending=False) of the keys S by score: every order in which
\* the scores do not increase
RECURSIVE sort_values(_, _)
sort_values(S, score) ==
    IF S = {} THEN {<<>>}
    ELSE LET top == {x \in S : \A y \in S : score[y] <= score[x]}
         IN  UNION {{<<x>> \o t : t \in sort_values(S \ {x}, score)} : x \in top}

\* Series.nlargest(k) of a series listed in index order `idx': the k largest,
\* the first occurrences first among equal scores; nothing for k <= 0
RECURSIVE nlargest(_, _, _)
nlargest(idx, score, k) ==
    IF k <= 0 \/ idx = <<>> THEN <<>>
    ELSE LET best == CHOOSE i \in DOMAIN idx :
                        /\ \A j \in DOMAIN idx : score[idx[j]] <= score[idx[i]]
                        /\ \A j \in 1..(i - 1) : score[idx[j]] < score[idx[i]]
             rest == [j \in 1..(Len(idx) - 1) |->
                         IF j < best THEN idx[j] ELSE idx[j + 1]]
         IN  <<idx[best]>> \o nlargest(rest, score, k - 1)

\* the elements of a set of integers in ascending order
RECURSIVE Ascending(_)
Ascending(S) ==
    IF S = {} THEN <<>>
    ELSE LET m == CHOOSE x \in S : \A y \in S : x <= y
         IN  <<m>> \o Ascending(S \ {m})

\* ------------------------------------------------------------ the dataset
\* One click per half day, in time order; click_ranking is the position of the
\* click among the clicks of its user.  User ids are only ever compared for
\* equality, so they are numbered in order of first appearance.
TrainUsers == {1, 2}

MakeRow(us, its, i) ==
    [user_id          |-> us[i],
     click_article_id |-> its[i],
     click_timestamp  |-> i,
     click_ranking    |-> Cardinality({j \in 1..i : us[j] = us[i]}),
     category_id      |-> CatOf(its[i])]

FirstAppearanceOrder(us) ==
    \A i \in DOMAIN us : \/ us[i] = 1
                         \/ \E j \in 1..(i - 1) : us[j] + 1 >= us[i]

Datasets ==
    UNION {{[i \in 1..n |-> MakeRow(us, its, i)] :
               us \in {f \in [1..n -> TrainUsers] : FirstAppearanceOrder(f)},
               its \in [1..n -> Items]} : n \in 0..MaxTrain}

UsersOf(td) == {td[i].user_id : i \in DOMAIN td}

\* the users a request can name: those of the dataset and one more
Requesters(td) == UsersOf(td) \cup {Cardinality(UsersOf(td)) + 1}

ArticlesOf(td) == {td[i].click_article_id : i \in DOMAIN td}

\* train_data.loc[train_data["user_id"] == user_id, ...]
UserRows(td, u) == SelectSeq(td, LAMBDA r : r.user_id = u)

\* value_counts of a column, as counts (normalize divides by Len)
value_counts(keys) ==
    [x \in Range(keys) |-> Cardinality({i \in DOMAIN keys : keys[i] = x})]

Column(td, c) == [i \in DOMAIN td |-> td[i][c]]

\* ------------------------------------------------------- results of calls
\* What a call leaves behind: the exception that escaped it (raised), the HTTP
\* status, the method tag, the recommendation list, the error message, the
\* profile vector, and whether cosine similarity was evaluated against a zero
\* profile.
NoProfile == [num |-> <<>>, div |-> 0]

BlankResult ==
    [op |-> "none", user |-> 0, k |-> 0, k_is_int |-> TRUE, raised |-> "",
     status |-> 0, method |-> "", recs |-> <<>>, error |-> "",
     profile |-> NoProfile, cosine_zero |-> FALSE]

NotFitted == "ValueError: Model has not been fitted yet."

\* no evaluate call has been made
NoEvaluation ==
    [done |-> FALSE, raised |-> "", k |-> 0, test_data |-> <<>>, users |-> <<>>]

\* ------------------------------------------------------ weights (shared)
\* (split_date - click_timestamp).days: Timedelta.days is the floor
DeltaDays(split_date, ts) == (split_date - ts) \div 2

MaxOf(S) == CHOOSE x \in S : \A y \in S : y <= x

\* np.exp(-w_recency * delta), as a numerator over 2^dmax
recency_weight(split_date, ts, dmax) ==
    Pow(2, dmax - DeltaDays(split_date, ts))

\* np.exp(-w_position * (position - 1)), as a numerator over 3^(rmax - 1)
ranking_weight(position, rmax) == Pow(3, rmax - position)

\* the weight of one row of user_df, as a numerator; category_weight is a pair
\* <<numerator, denominator>> looked up by the caller
CombinedWeight(split_date, user_df, row, category_weight, w_category) ==
    LET dmax == MaxOf({DeltaDays(split_date, user_df[i].click_timestamp) :
                          i \in DOMAIN user_df})
        rmax == MaxOf({user_df[i].click_ranking : i \in DOMAIN user_df})
        rw   == recency_weight(split_date, row.click_timestamp, dmax)
        pw   == ranking_weight(row.click_ranking, rmax)
    IN  IF w_category THEN rw * pw * category_weight ELSE rw * pw

\* no recency weight has been computed
NoWeight == [op |-> "none", split_date |-> 0, click_timestamp |-> 0, weight |-> <<1, 1>>]

\* the weight of a click at ts as a fraction <<numerator, denominator>>, the
\* denominator wide enough for every difference of the time range
recency_weight_fraction(split_date, ts) ==
    LET dmax == MaxTime \div 2
    IN  <<recency_weight(split_date, ts, dmax), Pow(2, dmax)>>

RECURSIVE SumVec(_)
SumVec(vs) == IF vs = <<>> THEN Zeros ELSE VecAdd(Head(vs), SumVec(Tail(vs)))

\* cosine_similarity(candidates, profile): sklearn normalises both sides and a
\* zero vector stays zero, so its similarity is 0.  Compared exactly:
\* sign(x) * x^2 / |a|^2 with x the dot product (|profile| is common).
SignedSquare(x) == IF x >= 0 THEN x * x ELSE -(x * x)

Norm2(a) == Dot(a, a)

CosLess(a, b, p) ==
    LET qa == IF Norm2(a) = 0 THEN 0 ELSE SignedSquare(Dot(a, p))
        qb == IF Norm2(b) = 0 THEN 0 ELSE SignedSquare(Dot(b, p))
        na == IF Norm2(a) = 0 THEN 1 ELSE Norm2(a)
        nb == IF Norm2(b) = 0 THEN 1 ELSE Norm2(b)
    IN  qa * nb < qb * na

\* a score that orders the candidates as their cosine similarity does
cosine_similarity(cands, p) ==
    [a \in cands |->
        Cardinality({b \in cands : CosLess(EmbeddingOf(b), EmbeddingOf(a), p)})]

\* ================================================== src/src/models/recommender.py
\* the bug of counting popularity only over the articles that have an embedding
models_load_popularity_of_embedded(td, w_category) ==
    LET kept == SelectSeq(Column(td, "click_article_id"), HasEmbeddingRow)
    IN  [loaded             |-> TRUE,
         split_date         |-> DEFAULT_SPLIT_DATE,
         w_category         |-> w_category,
         train_data         |-> td,
         embeddings         |-> Ascending({a \in ArticlesOf(td) : HasEmbeddingRow(a)}),
         article_popularity |-> value_counts(kept)]

\* WeightedContentBasedRecommender.__init__ and _load_data: the embeddings
\* index is the array's rows that are clicked in the training data
models_load_data(td, w_category) ==
    [loaded             |-> TRUE,
     split_date         |-> DEFAULT_SPLIT_DATE,
     w_category         |-> w_category,
     train_data         |-> td,
     embeddings         |-> Ascending({a \in ArticlesOf(td) : HasEmbeddingRow(a)}),
     article_popularity |-> value_counts(Column(td, "click_article_id"))]

NoEngine ==
    [loaded |-> FALSE, split_date |-> 0, w_category |-> FALSE, train_data |-> <<>>,
     embeddings |-> <<>>, article_popularity |-> <<>>]

\* the bug of always taking the uniform fallback, as a numerator over
\* Len(user_df) * len(w_user_category)
models_category_weight_uniform(w_user_category, user_df, row) == Len(user_df)

\* w_user_category.get(row.category_id, 1.0 / len(w_user_category)), as a
\* numerator over Len(user_df) * len(w_user_category)
models_category_weight(w_user_category, user_df, row) ==
    IF row.category_id \in DOMAIN w_user_category
    THEN w_user_category[row.category_id] * Cardinality(DOMAIN w_user_category)
    ELSE Len(user_df)

\* the divisor of the profile
models_profile_div(user_df, weighted_embeddings) == Len(weighted_embeddings)

models_build_user_profile(eng, user_id) ==
    LET user_df == UserRows(eng.train_data, user_id)
    IN  IF user_df = <<>>
        THEN [num |-> Zeros, div |-> 1]
        ELSE LET w_user_category == value_counts(Column(user_df, "category_id"))
                 kept == SelectSeq(user_df,
                            LAMBDA r : r.click_article_id \in Range(eng.embeddings))
                 weighted_embeddings ==
                     [i \in DOMAIN kept |->
                         Scale(EmbeddingOf(kept[i].click_article_id),
                               CombinedWeight(eng.split_date, user_df, kept[i],
                                   models_category_weight(w_user_category, user_df, kept[i]),
                                   eng.w_category))]
             IN  IF weighted_embeddings # <<>>
                 THEN [num |-> SumVec(weighted_embeddings),
                       div |-> models_profile_div(user_df, weighted_embeddings)]
                 ELSE [num |-> Zeros, div |-> 1]

\* the bug of letting the exception out of recommend
models_error_escapes(res, e) == [res EXCEPT !.raised = e]

\* the except clause of recommend
models_error_result(res, e) ==
    [res EXCEPT !.recs = <<>>, !.method = "error", !.error = e]

\* the bug of not leaving out the articles already read
models_all_articles(eng, read_articles) == eng.embeddings

\* self.embeddings[~self.embeddings.index.isin(read_articles)]
models_articles_not_read(eng, read_articles) ==
    SelectSeq(eng.embeddings, LAMBDA a : a \notin read_articles)

\* recommend(user_id, k): the set of results it can return
models_recommend(eng, user_id, k, k_is_int) ==
    LET res == [BlankResult EXCEPT !.op = "models.recommend", !.user = user_id,
                                   !.k = k, !.k_is_int = k_is_int]
        read_articles == ArticlesOf(UserRows(eng.train_data, user_id))
        articles_not_read == models_articles_not_read(eng, read_articles)
    IN  IF user_id \notin UsersOf(eng.train_data)
        THEN IF ~k_is_int
             THEN {models_error_result(res, "TypeError")}
             ELSE {[res EXCEPT !.recs = head(o, k), !.method = "popularity_fallback"] :
                      o \in sort_values(DOMAIN eng.article_popularity,
                                        eng.article_popularity)}
        ELSE IF articles_not_read = <<>>
        THEN {[res EXCEPT !.method = "no_new_articles"]}
        ELSE LET user_profile == models_build_user_profile(eng, user_id)
                 similarities ==
                     cosine_similarity(Range(articles_not_read), user_profile.num)
             IN  IF ~k_is_int
                 THEN {models_error_result(res, "TypeError")}
                 ELSE {[res EXCEPT !.recs = head(o, k),
                                   !.method = "weighted_content_based",
                                   !.cosine_zero = IsZero(user_profile.num)] :
                          o \in sort_values(Range(articles_not_read), similarities)}

\* ================================================ src/HttpRecommender/recommender.py
\* A recommender object; None fields are told by the flags beside them.
\* embeddings_kind is "ndarray" until fit_transform makes it a "DataFrame".
NoObj ==
    [cls |-> "None", k |-> 0,
     fitted |-> FALSE, article_popularity |-> <<>>, popularity_score |-> <<>>,
     embeddings_kind |-> "None", embeddings |-> <<>>,
     valid_articles_ids_set |-> FALSE, valid_articles_ids |-> {},
     split_date |-> 0, w_category |-> FALSE, w_user_category |-> <<>>]

\* PopularityRecommender.__init__
PopularityRecommender_init(k) ==
    [NoObj EXCEPT !.cls = "PopularityRecommender", !.k = k]

\* WeightedContentBasedRecommender.__init__ (and its bases'), given the array
WeightedContentBasedRecommender_init(k, split_date, w_category) ==
    [NoObj EXCEPT !.cls = "WeightedContentBasedRecommender", !.k = k,
                  !.embeddings_kind = "ndarray",
                  !.embeddings = [i \in DOMAIN EmbeddingsArray |-> i - 1],
                  !.split_date = split_date, !.w_category = w_category]

\* the index label of row i of a DataFrame (RangeIndex)
RowLabel(i) == i - 1

NaN == -1

\* the table PopularityRecommender.fit_transform builds, before it is sorted:
\* test_article_popularity is indexed by the ROW LABELS of the first
\* occurrences in test_data, the filler of fillna by article ids
popularity_table(td, test_data) ==
    LET train_article_popularity == value_counts(Column(td, "click_article_id"))
        train_category_popularity == value_counts(Column(td, "category_id"))
        firsts == {i \in DOMAIN test_data :
                      \A j \in 1..(i - 1) :
                          test_data[j].click_article_id # test_data[i].click_article_id}
        mapped(i) ==
            IF test_data[i].click_article_id \in DOMAIN train_article_popularity
            THEN train_article_popularity[test_data[i].click_article_id]
            ELSE NaN
        article_to_category(a) ==
            test_data[CHOOSE i \in firsts : test_data[i].click_article_id = a].category_id
        filler(a) ==
            IF article_to_category(a) \in DOMAIN train_category_popularity
            THEN train_category_popularity[article_to_category(a)]
            ELSE NaN
        filled(i) ==
            IF mapped(i) # NaN THEN mapped(i)
            ELSE IF RowLabel(i) \in ArticlesOf(test_data) THEN filler(RowLabel(i))
            ELSE NaN
        labels == {RowLabel(i) : i \in firsts}
    IN  [key \in DOMAIN train_article_popularity \cup labels |->
            IF key \in labels
            THEN filled(CHOOSE i \in firsts : RowLabel(i) = key)
            ELSE train_article_popularity[key]]

\* PopularityRecommender.fit_transform: the objects it can leave
PopularityRecommender_fit_transform(o, td, test_data) ==
    LET table == popularity_table(td, test_data)
    IN  {[o EXCEPT !.fitted = TRUE, !.popularity_score = table,
                   !.article_popularity = order] :
            order \in sort_values(DOMAIN table, table)}

\* the bug of truncating to k before the read articles are left out
PopularityRecommender_truncate_first(article_popularity, read_articles, k) ==
    SelectSeq(head(article_popularity, k), LAMBDA a : a \notin read_articles)

\* article_popularity[~index.isin(read_articles)].head(self.k)
PopularityRecommender_not_read_head(article_popularity, read_articles, k) ==
    head(SelectSeq(article_popularity, LAMBDA a : a \notin read_articles), k)

\* PopularityRecommender.recommend: the result
PopularityRecommender_recommend(o, td, user_id) ==
    LET res == [BlankResult EXCEPT !.op = "Popularity.recommend",
                                   !.user = user_id, !.k = o.k]
        read_articles == ArticlesOf(UserRows(td, user_id))
    IN  IF ~o.fitted
        THEN [res EXCEPT !.raised = NotFitted]
        ELSE [res EXCEPT !.recs = PopularityRecommender_not_read_head(
                                      o.article_popularity, read_articles, o.k)]

\* ContentBasedRecommender.fit_transform
ContentBasedRecommender_fit_transform(o, td, test_data) ==
    LET valid == ArticlesOf(td) \cup ArticlesOf(test_data)
    IN  [o EXCEPT !.embeddings_kind = "DataFrame",
                  !.valid_articles_ids_set = TRUE,
                  !.valid_articles_ids = valid,
                  !.embeddings = Ascending({a \in valid : HasEmbeddingRow(a)})]

\* self.w_user_category.get(row.category_id, 1.0 / sum(values)), as a numerator
\* over Len(user_df)
Weighted_category_weight(w_user_category, user_df, row) ==
    IF row.category_id \in DOMAIN w_user_category
    THEN w_user_category[row.category_id]
    ELSE Len(user_df)

\* WeightedContentBasedRecommender.build_user_profile: <<result, object>>
Weighted_build_user_profile(o, td, user_id) ==
    LET res == [BlankResult EXCEPT !.op = "Weighted.build_user_profile",
                                   !.user = user_id, !.k = o.k]
        user_df == UserRows(td, user_id)
        w_user_category == value_counts(Column(user_df, "category_id"))
        o2 == [o EXCEPT !.w_user_category = w_user_category]
        weighted_embeddings ==
            [i \in DOMAIN user_df |->
                Scale(EmbeddingOf(user_df[i].click_article_id),
                      CombinedWeight(o.split_date, user_df, user_df[i],
                          Weighted_category_weight(w_user_category, user_df, user_df[i]),
                          o.w_category))]
    IN  IF o.embeddings_kind = "None"
        THEN <<[res EXCEPT !.raised = NotFitted], o>>
        ELSE IF user_df # <<>> /\ o.embeddings_kind = "ndarray"
        THEN <<[res EXCEPT !.raised = "AttributeError"], o2>>
        ELSE IF \E i \in DOMAIN user_df :
                    user_df[i].click_article_id \notin Range(o.embeddings)
        THEN <<[res EXCEPT !.raised = "KeyError"], o2>>
        ELSE IF weighted_embeddings # <<>>
        THEN <<[res EXCEPT !.profile = [num |-> SumVec(weighted_embeddings),
                                        div |-> Len(weighted_embeddings)]], o2>>
        ELSE <<[res EXCEPT !.profile = [num |-> <<>>, div |-> 1]], o2>>

\* the bug of filtering self.embeddings in place: the object keeps only the
\* articles the user of this call has not read
ContentBasedRecommender_recommend_in_place(o, td, user_id) ==
    LET res == [BlankResult EXCEPT !.op = "Weighted.recommend",
                                   !.user = user_id, !.k = o.k]
        read_articles == ArticlesOf(UserRows(td, user_id))
        articles_not_read ==
            SelectSeq(o.embeddings, LAMBDA a : a \notin read_articles)
        built == Weighted_build_user_profile(o, td, user_id)
        user_profile == built[1].profile
        scores == [a \in Range(articles_not_read) |->
                      Dot(EmbeddingOf(a), user_profile.num)]
        kept == [built[2] EXCEPT !.embeddings = articles_not_read]
    IN  IF ~o.valid_articles_ids_set
        THEN <<[res EXCEPT !.raised = NotFitted], o>>
        ELSE IF built[1].raised # ""
        THEN <<[res EXCEPT !.raised = built[1].raised], kept>>
        ELSE IF Len(user_profile.num) # Dim
        THEN <<[res EXCEPT !.raised = "ValueError: matrices are not aligned"], kept>>
        ELSE <<[res EXCEPT !.recs = nlargest(articles_not_read, scores, o.k)], kept>>

\* ContentBasedRecommender.recommend, as WeightedContentBasedRecommender
\* inherits it: <<result, object>>
ContentBasedRecommender_recommend(o, td, user_id) ==
    LET res == [BlankResult EXCEPT !.op = "Weighted.recommend",
                                   !.user = user_id, !.k = o.k]
        read_articles == ArticlesOf(UserRows(td, user_id))
        articles_not_read ==
            SelectSeq(o.embeddings, LAMBDA a : a \notin read_articles)
        built == Weighted_build_user_profile(o, td, user_id)
        user_profile == built[1].profile
        scores == [a \in Range(articles_not_read) |->
                      Dot(EmbeddingOf(a), user_profile.num)]
    IN  IF ~o.valid_articles_ids_set
        THEN <<[res EXCEPT !.raised = NotFitted], o>>
        ELSE IF built[1].raised # ""
        THEN <<[res EXCEPT !.raised = built[1].raised], built[2]>>
        ELSE IF Len(user_profile.num) # Dim
        THEN <<[res EXCEPT !.raised = "ValueError: matrices are not aligned"],
               built[2]>>
        ELSE <<[res EXCEPT !.recs = nlargest(articles_not_read, scores, o.k)],
               built[2]>>

\* ---------------------------------------------------- Recommender.evaluate
\* The held-out sets: user 1 may be a training user, user 3 never is.
TestUsers == {1, 3}

TestDatasets ==
    UNION {{[i \in 1..n |-> MakeRow(us, its, i)] :
               us \in [1..n -> TestUsers], its \in [1..n -> Items]} : n \in 0..MaxTest}

\* Series.unique(): the values in order of first appearance
RECURSIVE Unique(_)
Unique(s) ==
    IF s = <<>> THEN <<>>
    ELSE LET r == Unique(SubSeq(s, 1, Len(s) - 1))
         IN  IF s[Len(s)] \in Range(r) THEN r ELSE Append(r, s[Len(s)])

\* precision = n_hit / len(top_k), as <<numerator, denominator>>
evaluate_precision(n_hit, top_k, k) == <<n_hit, Cardinality(top_k)>>

\* the metrics of one user; fractions are <<numerator, denominator>>
user_metrics(user_id, true_items, top_k, k) ==
    LET n_hit     == Cardinality(true_items \cap top_k)
        precision == evaluate_precision(n_hit, top_k, k)
        recall    == <<n_hit, Cardinality(true_items)>>
        sum       == precision[1] * recall[2] + recall[1] * precision[2]
    IN  [user      |-> user_id,
         n_hit     |-> n_hit,
         n_top     |-> Cardinality(top_k),
         n_true    |-> Cardinality(true_items),
         hit       |-> IF n_hit > 0 THEN 1 ELSE 0,
         precision |-> precision,
         recall    |-> recall,
         f1        |-> IF sum > 0
                       THEN <<2 * precision[1] * recall[1], sum>>
                       ELSE <<0, 1>>]

\* the loop of evaluate over the users still to do: what it raised, the
\* metrics appended so far, and the object as the calls left it
RECURSIVE evaluate_users(_, _, _, _, _)
evaluate_users(o, td, test_data, users, metrics) ==
    IF users = <<>> THEN [raised |-> "", metrics |-> metrics, obj |-> o]
    ELSE LET user_id    == Head(users)
             true_items == ArticlesOf(UserRows(test_data, user_id))
             call       == IF o.cls = "PopularityRecommender"
                           THEN <<PopularityRecommender_recommend(o, td, user_id), o>>
                           ELSE ContentBasedRecommender_recommend(o, td, user_id)
             top_k      == Range(head(call[1].recs, o.k))
         IN  IF true_items = {}
             THEN evaluate_users(o, td, test_data, Tail(users), metrics)
             ELSE IF call[1].raised # ""
             THEN [raised |-> call[1].raised, metrics |-> metrics, obj |-> call[2]]
             ELSE IF top_k = {}
             THEN [raised |-> "ZeroDivisionError", metrics |-> metrics, obj |-> call[2]]
             ELSE evaluate_users(call[2], td, test_data, Tail(users),
                      Append(metrics, user_metrics(user_id, true_items, top_k, o.k)))

\* Recommender.evaluate(test_data): the outcomes it can have
Recommender_evaluate(o, td, test_data) ==
    LET fits == IF o.cls = "PopularityRecommender"
                THEN PopularityRecommender_fit_transform(o, td, test_data)
                ELSE {ContentBasedRecommender_fit_transform(o, td, test_data)}
    IN  {evaluate_users(f, td, test_data, Unique(Column(test_data, "user_id")), <<>>) :
            f \in fits}

\* ================================================== src/HttpRecommender/__init__.py
\* SPLIT_DATE = clicks_df["click_timestamp"].max()
SPLIT_DATE(clicks_df) ==
    IF clicks_df = <<>> THEN 0
    ELSE MaxOf({clicks_df[i].click_timestamp : i \in DOMAIN clicks_df})

http_response(res, status, method, recs, error) ==
    [res EXCEPT !.status = status, !.method = method, !.recs = recs, !.error = error]

\* main(req): the responses it can give
HttpRecommender_main(clicks_df, user_id, k, k_is_int) ==
    LET res == [BlankResult EXCEPT !.op = "http.main", !.user = user_id,
                                   !.k = k, !.k_is_int = k_is_int]
    IN  IF ~k_is_int
        THEN {http_response(res, 500, "", <<>>, "ValueError: invalid literal for int()")}
        ELSE IF user_id \notin UsersOf(clicks_df)
        THEN {LET r == PopularityRecommender_recommend(fitted, clicks_df, user_id)
              IN  http_response(res, 200, "popularity", r.recs, "") :
                 fitted \in PopularityRecommender_fit_transform(
                                PopularityRecommender_init(k), clicks_df, clicks_df)}
        ELSE LET recommender ==
                     ContentBasedRecommender_fit_transform(
                         WeightedContentBasedRecommender_init(k, SPLIT_DATE(clicks_df), TRUE),
                         clicks_df, clicks_df)
                 r == ContentBasedRecommender_recommend(recommender, clicks_df, user_id)[1]
             IN  IF r.raised # ""
                 THEN {http_response(res, 500, "", <<>>, r.raised)}
                 ELSE {http_response(res, 200, "weighted_content_based", r.recs, "")}

\* ======================================= src/src/functions/recommendation_api.py
\* The worker threads that run main, and where each one stands in it.
Threads == {"t1", "t2"}

\* recommender = None, no thread inside main, nothing constructed yet
ApiIdle == [pc |-> [t \in Threads |-> "idle"], constructions |-> 0]

\* "k must be between 1 and 50"
API_MAX_K == 50

\* a request that carries no user_id
NoUser == 0

\* the k of a request to the API, when it is an integer
ApiKArgs == KArgs \cup {API_MAX_K + 1}

\* main after init_recommender() has returned: the responses it can give
api_respond(eng, user_id, k, k_is_int) ==
    LET res == [BlankResult EXCEPT !.op = "api.main", !.user = user_id,
                                   !.k = k, !.k_is_int = k_is_int]
    IN  IF user_id = NoUser
        THEN {http_response(res, 400, "", <<>>, "user_id parameter is required")}
        ELSE IF ~k_is_int
        THEN {http_response(res, 400, "", <<>>, "user_id and k must be integers")}
        ELSE IF k <= 0 \/ k > API_MAX_K
        THEN {http_response(res, 400, "", <<>>, "k must be between 1 and 50")}
        ELSE {http_response(res, 200, r.method, r.recs, r.error) :
                 r \in models_recommend(eng, user_id, k, TRUE)}

\* the bug of binding the global before the load has finished: a failed load
\* leaves a recommender whose tables are missing
api_partial_recommender_kept(eng) ==
    [loaded |-> TRUE, split_date |-> DEFAULT_SPLIT_DATE, w_category |-> TRUE,
     train_data |-> <<>>, embeddings |-> <<>>, article_popularity |-> <<>>]

\* the global after the constructor raised: the assignment of line 30 never
\* happened, the global is what it was
api_recommender_after_failed_load(eng) == eng

\* the response of main when init_recommender() raises
api_init_failed ==
    http_response([BlankResult EXCEPT !.op = "api.main"], 500, "", <<>>,
                  "Internal server error")

\* ----------------------------------------------------------------- actions
\* direct calls of the engine of src/src/models/recommender.py
ModelsRecommend ==
    /\ app = "models"
    /\ \E user_id \in Requesters(train_data), k \in PositiveK \cup {0},
          k_is_int \in BOOLEAN :
         /\ k_is_int <=> k # 0
         /\ result' \in models_recommend(engine, user_id, k, k_is_int)
    /\ UNCHANGED <<train_data, app, engine, obj, api, ev, wt>>

ModelsBuildUserProfile ==
    /\ app = "models"
    /\ \E user_id \in Requesters(train_data) :
         result' = [BlankResult EXCEPT !.op = "models.build_user_profile",
                                       !.user = user_id,
                                       !.profile = models_build_user_profile(engine, user_id)]
    /\ UNCHANGED <<train_data, app, engine, obj, api, ev, wt>>

\* a request to the HTTP trigger of src/HttpRecommender
HttpMain ==
    /\ app = "http"
    /\ \E user_id \in Requesters(train_data), k \in KArgs, k_is_int \in BOOLEAN :
         /\ k_is_int \/ k = 0
         /\ result' \in HttpRecommender_main(train_data, user_id, k, k_is_int)
    /\ UNCHANGED <<train_data, app, engine, obj, api, ev, wt>>

\* the classes of src/HttpRecommender/recommender.py used directly
NewPopularityRecommender ==
    /\ app = "lib"
    /\ obj.cls = "None"
    /\ \E k \in PositiveK :
         /\ obj' = PopularityRecommender_init(k)
         /\ result' = [BlankResult EXCEPT !.op = "new", !.k = k]
    /\ UNCHANGED <<train_data, app, engine, api, ev, wt>>

NewWeightedContentBasedRecommender ==
    /\ app = "lib"
    /\ obj.cls = "None"
    /\ \E k \in PositiveK :
         /\ obj' = WeightedContentBasedRecommender_init(k, SPLIT_DATE(train_data), TRUE)
         /\ result' = [BlankResult EXCEPT !.op = "new", !.k = k]
    /\ UNCHANGED <<train_data, app, engine, api, ev, wt>>

FitTransform ==
    /\ app = "lib"
    /\ \/ /\ obj.cls = "PopularityRecommender"
          /\ obj' \in PopularityRecommender_fit_transform(obj, train_data, train_data)
       \/ /\ obj.cls = "WeightedContentBasedRecommender"
          /\ obj' = ContentBasedRecommender_fit_transform(obj, train_data, train_data)
    /\ result' = [BlankResult EXCEPT !.op = "fit_transform", !.k = obj.k]
    /\ UNCHANGED <<train_data, app, engine, api, ev, wt>>

Recommend ==
    /\ app = "lib"
    /\ \E user_id \in Requesters(train_data) :
         \/ /\ obj.cls = "PopularityRecommender"
            /\ result' = PopularityRecommender_recommend(obj, train_data, user_id)
            /\ obj' = obj
         \/ /\ obj.cls = "WeightedContentBasedRecommender"
            /\ result' = ContentBasedRecommender_recommend(obj, train_data, user_id)[1]
            /\ obj' = ContentBasedRecommender_recommend(obj, train_data, user_id)[2]
    /\ UNCHANGED <<train_data, app, engine, api, ev, wt>>

BuildUserProfile ==
    /\ app = "lib"
    /\ obj.cls = "WeightedContentBasedRecommender"
    /\ \E user_id \in Requesters(train_data) :
         /\ result' = Weighted_build_user_profile(obj, train_data, user_id)[1]
         /\ obj' = Weighted_build_user_profile(obj, train_data, user_id)[2]
    /\ UNCHANGED <<train_data, app, engine, api, ev, wt>>

\* the API of src/src/functions/recommendation_api.py, one step of one thread
\* main is entered: init_recommender() is about to test the global
ApiEnter(t) ==
    /\ api.pc[t] = "idle"
    /\ api' = [api EXCEPT !.pc[t] = "init_recommender"]
    /\ UNCHANGED <<train_data, app, engine, obj, result, ev, wt>>

\* if recommender is None
ApiCheck(t) ==
    /\ api.pc[t] = "init_recommender"
    /\ api' = [api EXCEPT !.pc[t] = IF engine.loaded THEN "serve" ELSE "constructing"]
    /\ UNCHANGED <<train_data, app, engine, obj, result, ev, wt>>

\* recommender = WeightedContentBasedRecommender(...): the load succeeds
ApiConstruct(t) ==
    /\ api.pc[t] = "constructing"
    /\ engine' = models_load_data(train_data, TRUE)
    /\ api' = [api EXCEPT !.pc[t] = "serve", !.constructions = @ + 1]
    /\ UNCHANGED <<train_data, app, obj, result, ev, wt>>

\* the load raises: init_recommender re-raises, main answers 500
ApiConstructFails(t) ==
    /\ api.pc[t] = "constructing"
    /\ result' = api_init_failed
    /\ engine' = api_recommender_after_failed_load(engine)
    /\ api' = [api EXCEPT !.pc[t] = "idle"]
    /\ UNCHANGED <<train_data, app, obj, ev, wt>>

\* the rest of main: parameters, validation, recommender.recommend
ApiServe(t) ==
    /\ api.pc[t] = "serve"
    /\ \E user_id \in Requesters(train_data) \cup {NoUser}, k \in ApiKArgs,
          k_is_int \in BOOLEAN :
         /\ k_is_int \/ k = 0
         /\ result' \in api_respond(engine, user_id, k, k_is_int)
    /\ api' = [api EXCEPT !.pc[t] = "idle"]
    /\ UNCHANGED <<train_data, app, engine, obj, ev, wt>>

\* evaluate(test_data) on the recommender, once
Evaluate ==
    /\ app = "eval"
    /\ ~ev.done
    /\ \E test_data \in TestDatasets :
         \E out \in Recommender_evaluate(obj, train_data, test_data) :
            /\ obj' = out.obj
            /\ ev' = [done |-> TRUE, raised |-> out.raised, k |-> obj.k,
                      test_data |-> test_data, users |-> out.metrics]
    /\ UNCHANGED <<train_data, app, engine, result, api, wt>>

\* _recency_weight of the engine, called on a timestamp
ModelsRecencyWeight ==
    /\ app = "weights"
    /\ \E split_date \in 0..MaxTime, ts \in 0..MaxTime :
         wt' = [op |-> "models._recency_weight", split_date |-> split_date,
                click_timestamp |-> ts,
                weight |-> recency_weight_fraction(split_date, ts)]
    /\ UNCHANGED <<train_data, app, engine, obj, result, api, ev>>

\* recency_weight of the HttpRecommender class, called on a timestamp
WeightedRecencyWeight ==
    /\ app = "weights"
    /\ \E split_date \in 0..MaxTime, ts \in 0..MaxTime :
         wt' = [op |-> "Weighted.recency_weight", split_date |-> split_date,
                click_timestamp |-> ts,
                weight |-> recency_weight_fraction(split_date, ts)]
    /\ UNCHANGED <<train_data, app, engine, obj, result, api, ev>>

Apps == {"models", "http", "lib"}

Init ==
    /\ train_data \in Datasets
    /\ app \in Apps
    /\ engine = IF app = "models" THEN models_load_data(train_data, TRUE) ELSE NoEngine
    /\ obj = NoObj
    /\ result = BlankResult
    /\ api = ApiIdle
    /\ ev = NoEvaluation
    /\ wt = NoWeight

Next ==
    \/ ModelsRecommend
    \/ ModelsBuildUserProfile
    \/ HttpMain
    \/ NewPopularityRecommender
    \/ NewWeightedContentBasedRecommender
    \/ FitTransform
    \/ Recommend
    \/ BuildUserProfile

Spec == Init /\ [][Next]_vars

\* the engine of src/src/models/recommender.py alone
NextModels ==
    \/ ModelsRecommend
    \/ ModelsBuildUserProfile

InitModels == Init /\ app = "models"

SpecModels == InitModels /\ [][NextModels]_vars

\* the classes of src/HttpRecommender/recommender.py alone
NextLib ==
    \/ NewPopularityRecommender
    \/ NewWeightedContentBasedRecommender
    \/ FitTransform
    \/ Recommend
    \/ BuildUserProfile

InitLib == Init /\ app = "lib"

SpecLib == InitLib /\ [][NextLib]_vars

\* the HTTP trigger of src/HttpRecommender alone
NextHttp == HttpMain

InitHttp == Init /\ app = "http"

SpecHttp == InitHttp /\ [][NextHttp]_vars

\* every recommend method called directly: the engine and the classes
NextRecommenders ==
    \/ NextModels
    \/ NextLib

InitRecommenders == Init /\ app \in {"models", "lib"}

SpecRecommenders == InitRecommenders /\ [][NextRecommenders]_vars

\* the API of src/src/functions/recommendation_api.py: the recommender is not
\* constructed until the first request
InitApi ==
    /\ train_data \in {td \in Datasets : Len(td) <= MaxApiTrain}
    /\ app = "api"
    /\ engine = NoEngine
    /\ obj = NoObj
    /\ result = BlankResult
    /\ api = ApiIdle
    /\ ev = NoEvaluation
    /\ wt = NoWeight

NextApi ==
    \E t \in Threads :
        \/ ApiEnter(t)
        \/ ApiCheck(t)
        \/ ApiConstruct(t)
        \/ ApiConstructFails(t)
        \/ ApiServe(t)

SpecApi == InitApi /\ [][NextApi]_vars

\* Recommender.evaluate on a recommender just constructed
InitEval ==
    /\ train_data \in Datasets
    /\ app = "eval"
    /\ engine = NoEngine
    /\ obj \in {PopularityRecommender_init(k) : k \in PositiveK}
              \cup {WeightedContentBasedRecommender_init(k, SPLIT_DATE(train_data), TRUE) :
                       k \in PositiveK}
    /\ result = BlankResult
    /\ api = ApiIdle
    /\ ev = NoEvaluation
    /\ wt = NoWeight

NextEval == Evaluate

SpecEval == InitEval /\ [][NextEval]_vars

\* the recency weight as a function of split date and timestamp
InitWeights ==
    /\ train_data = <<>>
    /\ app = "weights"
    /\ engine = NoEngine
    /\ obj = NoObj
    /\ result = BlankResult
    /\ api = ApiIdle
    /\ ev = NoEvaluation
    /\ wt = NoWeight

NextWeights ==
    \/ ModelsRecencyWeight
    \/ WeightedRecencyWeight

SpecWeights == InitWeights /\ [][NextWeights]_vars

\* ================================================================= claims
Distinct(s) == \A i, j \in DOMAIN s : i # j => s[i] # s[j]

\* the articles the user of the last call has clicked
History == ArticlesOf(UserRows(train_data, result.user))

KnownUser == result.user \in UsersOf(train_data)

\* the PopularityTable of the specification: article -> click count
PopularityTable == value_counts(Column(train_data, "click_article_id"))

\* recs lists the k best keys of table outside `excluded', best first
IsTopK(recs, k, table, excluded) ==
    LET keys == DOMAIN table \ excluded
    IN  /\ Len(recs) = Min(k, Cardinality(keys))
        /\ Range(recs) \subseteq keys
        /\ Distinct(recs)
        /\ \A i, j \in DOMAIN recs : i < j => table[recs[i]] >= table[recs[j]]
        /\ \A x \in keys \ Range(recs) : \A i \in DOMAIN recs : table[x] <= table[recs[i]]

\* the embedded articles of the catalog the user has not read
UnreadCandidates == {a \in ArticlesOf(train_data) : HasEmbeddingRow(a)} \ History

\* a tagged result was produced: by recommend of the engine, or by the HTTP
\* trigger answering 200
TaggedResult ==
    \/ result.op = "models.recommend"
    \/ result.op = "http.main"

\* C1: for a user with no interaction in the training data and k > 0, the
\* result is tagged "popularity" and lists exactly the k most popular articles
\* of the popularity table, nothing excluded.
C1_UnknownUserPopularity ==
    (TaggedResult /\ ~KnownUser /\ result.k_is_int /\ result.k > 0)
        => /\ result.method = "popularity"
           /\ IsTopK(result.recs, result.k, PopularityTable, {})

\* C2: for a known user whose profile is the zero vector while unread
\* candidates exist, the result is tagged "popularity_fallback", lists the
\* popularity ranking without the read articles, and cosine similarity is not
\* evaluated against the zero profile.
C2_ZeroProfileFallsBack ==
    (/\ result.op = "models.recommend" /\ KnownUser
     /\ result.k_is_int /\ result.k > 0
     /\ UnreadCandidates # {}
     /\ IsZero(models_build_user_profile(engine, result.user).num))
        => /\ result.method = "popularity_fallback"
           /\ IsTopK(result.recs, result.k, PopularityTable, History)
           /\ ~result.cosine_zero

\* the calls that return a recommendation list
ReturnsList ==
    /\ result.op \in {"models.recommend", "http.main", "Weighted.recommend",
                      "Popularity.recommend"}
    /\ result.raised = ""

\* the articles the recommender of the last call can still offer the user
Offerable ==
    IF result.op = "Popularity.recommend"
    THEN Range(obj.article_popularity) \ History
    ELSE UnreadCandidates

\* C3: for k > 0 and a known user with at least one unread candidate, the
\* list recommend returns has at most k items, all distinct, none of them in
\* the user's history.
C3_AtMostKDistinctUnread ==
    (ReturnsList /\ KnownUser /\ result.k_is_int /\ result.k > 0 /\ Offerable # {})
        => /\ Len(result.recs) <= result.k
           /\ Distinct(result.recs)
           /\ Range(result.recs) \cap History = {}

\* C3 witness: a content-based list cut to k while more candidates remained
C3_Witness ==
    /\ result.op = "models.recommend" /\ KnownUser
    /\ result.method = "weighted_content_based"
    /\ Len(result.recs) = result.k
    /\ Cardinality(UnreadCandidates) > result.k
    /\ History \cap Range(engine.embeddings) # {}

\* C4: for a known user with no unread candidate left, the result is tagged
\* "no_new_articles" and its list is empty, whatever k is.
C4_NoNewArticles ==
    (TaggedResult /\ KnownUser /\ UnreadCandidates = {}
     /\ (result.op = "http.main" => result.k_is_int))
        => /\ result.method = "no_new_articles"
           /\ result.recs = <<>>

MethodTags ==
    {"popularity", "popularity_fallback", "weighted_content_based", "no_new_articles"}

\* the request makes the scoring fail: k is not an integer and the path
\* reaches head(k)
InternalFailure == ~result.k_is_int /\ ~(KnownUser /\ UnreadCandidates = {})

PositionIn(ranking, a) == CHOOSE i \in DOMAIN ranking : ranking[i] = a

\* a ranking by descending score, equal scores by ascending article id
DescendingThenId(ranking, score) ==
    \A i, j \in DOMAIN ranking :
        i < j => \/ score[ranking[i]] > score[ranking[j]]
                 \/ /\ score[ranking[i]] = score[ranking[j]]
                    /\ ranking[i] < ranking[j]

\* C6: the popularity ranking lists the articles by descending popularity
\* score, equal scores by ascending article id.
C6_TiesByAscendingId ==
    /\ obj.fitted => DescendingThenId(obj.article_popularity, obj.popularity_score)
    /\ (result.op = "models.recommend" /\ ~KnownUser /\ result.method # "error")
           => DescendingThenId(result.recs, engine.article_popularity)

\* C7: PopularityRecommender.recommend leaves out the read articles before it
\* truncates: the list is the first min(k, number of unread entries) unread
\* entries of the popularity ranking, in ranking order.
C7_ExcludeBeforeTruncate ==
    (result.op = "Popularity.recommend" /\ result.raised = "")
        => LET ranking == obj.article_popularity
               unread  == Range(ranking) \ History
               recs    == result.recs
           IN  /\ Len(recs) = Min(obj.k, Cardinality(unread))
               /\ Range(recs) \subseteq unread
               /\ \A i, j \in DOMAIN recs :
                      i < j => PositionIn(ranking, recs[i]) < PositionIn(ranking, recs[j])
               /\ \A a \in unread \ Range(recs) : \A i \in DOMAIN recs :
                      PositionIn(ranking, recs[i]) < PositionIn(ranking, a)

\* C7 witness: a read article stands among the first k of the ranking and the
\* list still has k entries
C7_Witness ==
    /\ result.op = "Popularity.recommend" /\ result.raised = ""
    /\ Len(result.recs) = obj.k
    /\ \E i \in 1..obj.k : /\ i \in DOMAIN obj.article_popularity
                           /\ obj.article_popularity[i] \in History

\* fit_transform has completed on the object
Fitted == obj.fitted \/ obj.valid_articles_ids_set

\* C8: a recommend or profile-building call made before the first
\* fit_transform fails with the not-fitted error and returns no list.
C8_NotFittedBeforeFit ==
    (/\ result.op \in {"Popularity.recommend", "Weighted.recommend",
                       "Weighted.build_user_profile"}
     /\ ~Fitted)
        => /\ result.raised = NotFitted
           /\ result.recs = <<>>

\* the rows of the user of the last call whose article has an embedding
Contributing ==
    SelectSeq(UserRows(train_data, result.user),
              LAMBDA r : HasEmbeddingRow(r.click_article_id))

\* the weight the specification gives a row: recency * position * the user's
\* frequency of the row's category (as a numerator, see CombinedWeight)
SpecWeight(split_date, row) ==
    LET user_df == UserRows(train_data, result.user)
    IN  CombinedWeight(split_date, user_df, row,
            Cardinality({i \in DOMAIN user_df : user_df[i].category_id = row.category_id}),
            TRUE)

SpecWeightedSum(split_date) ==
    SumVec([i \in DOMAIN Contributing |->
               Scale(EmbeddingOf(Contributing[i].click_article_id),
                     SpecWeight(split_date, Contributing[i]))])

ProfileCall ==
    \/ result.op = "models.build_user_profile"
    \/ result.op = "Weighted.build_user_profile" /\ Fitted

\* C9: build_user_profile skips the interactions whose article has no
\* embedding without raising, and the profile is the sum of the weight-scaled
\* embeddings of the others divided by their number.
C9_SkipMissingMeanOfContributing ==
    (ProfileCall /\ KnownUser)
        => /\ result.raised = ""
           /\ Contributing # <<>> =>
                 /\ result.profile.div = Len(Contributing)
                 /\ \E c \in 1..MaxTrain :
                        result.profile.num =
                            Scale(SpecWeightedSum(IF result.op = "models.build_user_profile"
                                                  THEN engine.split_date
                                                  ELSE obj.split_date), c)

\* C10: for a user with no interaction in the training data,
\* build_user_profile returns the zero vector of the embeddings' dimension.
C10_ZeroVectorForUnknownUser ==
    (ProfileCall /\ ~KnownUser)
        => /\ result.raised = ""
           /\ Len(result.profile.num) = Dim
           /\ IsZero(result.profile.num)

\* a list ranked by similarity was returned
SimilarityResult ==
    /\ ReturnsList
    /\ \/ result.method = "weighted_content_based"
       \/ result.op = "Weighted.recommend"

\* C11: an article without an embedding is never in a similarity-ranked list,
\* yet every article clicked in the training data, embedded or not, is a key of
\* the popularity table and is listed to an unknown user when k leaves room.
C11_NoEmbeddingOnlyPopular ==
    /\ SimilarityResult => \A i \in DOMAIN result.recs : HasEmbeddingRow(result.recs[i])
    /\ engine.loaded => ArticlesOf(train_data) \subseteq DOMAIN engine.article_popularity
    /\ obj.fitted => ArticlesOf(train_data) \subseteq Range(obj.article_popularity)
    /\ (/\ result.op = "models.recommend" /\ ~KnownUser
        /\ result.method # "error" /\ Len(result.recs) < result.k)
           => ArticlesOf(train_data) \subseteq Range(result.recs)

\* C11 witness: an unread clicked article without an embedding is left out of
\* a similarity list that had room for it, and is in the popularity table
C11_Witness ==
    /\ result.op = "models.recommend"
    /\ result.method = "weighted_content_based"
    /\ Len(result.recs) < result.k
    /\ \E a \in ArticlesOf(train_data) \ History :
           /\ ~HasEmbeddingRow(a)
           /\ a \in DOMAIN engine.article_popularity

\* a response of one of the two HTTP entry points
HttpResponse == result.op \in {"api.main", "http.main"}

\* C12: a request whose k is not an integer or is not positive is answered, by
\* either HTTP entry point, with an error response that carries a message and
\* no recommendation list, and no exception escapes.
C12_BadKRejected ==
    (HttpResponse /\ (~result.k_is_int \/ result.k <= 0))
        => /\ result.raised = ""
           /\ result.status \in {400, 500}
           /\ result.error # ""
           /\ result.recs = <<>>

\* two fractions <<numerator, denominator>> are the same number
SameFraction(a, b) == a[1] * b[2] = b[1] * a[2]

\* a fraction <<numerator, denominator>> lies in [0, 1]
InUnitInterval(a) == a[2] > 0 /\ 0 <= a[1] /\ a[1] <= a[2]

\* the held-out items of a user
TrueItems(user_id) == ArticlesOf(UserRows(ev.test_data, user_id))

\* C13: for each evaluated user, hit is 1 exactly when the top-k list meets
\* the true items, precision is the number of hits over k, recall is the
\* number of hits over the number of true items, and F1 is the harmonic mean
\* of precision and recall, 0 when both are 0.
C13_PerUserMetrics ==
    \A i \in DOMAIN ev.users :
        LET m == ev.users[i]
        IN  /\ m.hit = IF m.n_hit > 0 THEN 1 ELSE 0
            /\ SameFraction(m.precision, <<m.n_hit, ev.k>>)
            /\ SameFraction(m.recall, <<m.n_hit, Cardinality(TrueItems(m.user))>>)
            /\ IF m.n_hit = 0
               THEN m.f1[1] = 0
               ELSE SameFraction(m.f1,
                        <<2 * m.precision[1] * m.recall[1],
                          m.precision[1] * m.recall[2] + m.recall[1] * m.precision[2]>>)

\* C14: evaluate completes without a fault on every held-out set, and every
\* hit, precision, recall and F1 lies in [0, 1], F1 being 0 when precision and
\* recall are 0.
C14_EvaluateCompletesInRange ==
    ev.done
        => /\ ev.raised = ""
           /\ \A i \in DOMAIN ev.users :
                  LET m == ev.users[i]
                  IN  /\ m.hit \in {0, 1}
                      /\ InUnitInterval(m.precision)
                      /\ InUnitInterval(m.recall)
                      /\ InUnitInterval(m.f1)
                      /\ (m.precision[1] = 0 /\ m.recall[1] = 0) => m.f1[1] = 0

\* C15: after PopularityRecommender.fit_transform(test_data), an article of the
\* training data has its own click frequency as score; an article of test_data
\* alone has the training frequency of its category when that category occurs
\* in training, and is otherwise not a key of the table.  (Frequencies are
\* counts over the same number of training rows.)
C15_TestOnlyItemsInheritCategory ==
    (ev.done /\ obj.cls = "PopularityRecommender" /\ obj.fitted)
        => LET table     == obj.popularity_score
               own       == value_counts(Column(train_data, "click_article_id"))
               category  == value_counts(Column(train_data, "category_id"))
               test_only == ArticlesOf(ev.test_data) \ ArticlesOf(train_data)
           IN  /\ \A a \in DOMAIN own : a \in DOMAIN table /\ table[a] = own[a]
               /\ \A a \in test_only :
                      IF CatOf(a) \in DOMAIN category
                      THEN a \in DOMAIN table /\ table[a] = category[CatOf(a)]
                      ELSE a \notin DOMAIN table

\* evaluate returned: the metrics it recorded are in range
EvaluateReturnedInRange ==
    (ev.done /\ ev.raised = "")
        => \A i \in DOMAIN ev.users :
               /\ InUnitInterval(ev.users[i].precision)
               /\ InUnitInterval(ev.users[i].recall)
               /\ InUnitInterval(ev.users[i].f1)

\* C16: the recency weight is 1 when the timestamp equals split_date, above 1
\* for every timestamp after it and below 1 for every timestamp before it.
C16_RecencyWeightAroundSplit ==
    wt.op # "none"
        => /\ wt.click_timestamp = wt.split_date => wt.weight[1] = wt.weight[2]
           /\ wt.click_timestamp > wt.split_date => wt.weight[1] > wt.weight[2]
           /\ wt.click_timestamp < wt.split_date => wt.weight[1] < wt.weight[2]

\* the shared tables of the recommender object
ObjCatalog == <<obj.embeddings, obj.article_popularity, obj.popularity_score>>

\* a step that is a recommend or profile call on a loaded recommender
RequestStep ==
    \/ /\ engine.loaded
       /\ result'.op \in {"models.recommend", "models.build_user_profile"}
    \/ /\ Fitted
       /\ result'.op \in {"Popularity.recommend", "Weighted.recommend",
                          "Weighted.build_user_profile"}

\* the recommender of the last call as fit_transform first left it
FreshlyFitted ==
    ContentBasedRecommender_fit_transform(
        WeightedContentBasedRecommender_init(obj.k, obj.split_date, obj.w_category),
        train_data, train_data)

\* the tables are as loading left them, and the last result is the one a
\* first request would get
CatalogAsLoaded ==
    /\ engine.loaded => engine = models_load_data(train_data, TRUE)
    /\ result.op = "models.recommend"
           => result \in models_recommend(models_load_data(train_data, TRUE),
                                          result.user, result.k, result.k_is_int)
    /\ (obj.cls = "WeightedContentBasedRecommender" /\ Fitted)
           => obj.embeddings = FreshlyFitted.embeddings
    /\ (result.op = "Weighted.recommend" /\ Fitted)
           => result = ContentBasedRecommender_recommend(
                           FreshlyFitted, train_data, result.user)[1]

\* C17: no recommend or profile call changes the interaction table, the
\* embedding table or the popularity table, whether it succeeds, serves a
\* cold start or fails; so a result is the one a first request would get.
C17_RequestsLeaveCatalog ==
    /\ []CatalogAsLoaded
    /\ [][RequestStep => /\ train_data' = train_data
                         /\ engine' = engine
                         /\ ObjCatalog' = ObjCatalog]_vars

\* C17 witness: a recommend call has returned a list from a fitted object that
\* the call itself wrote to (w_user_category)
C17_Witness ==
    /\ result.op = "Weighted.recommend"
    /\ result.recs # <<>>
    /\ obj.w_user_category # <<>>

\* a step in which init_recommender fails in some thread
InitFails == \E t \in Threads : api.pc[t] = "constructing" /\ api'.pc[t] = "idle"

\* whoever is past init_recommender, or has been answered 200, has the
\* completely loaded recommender behind it
ServedFromLoaded ==
    /\ \A t \in Threads : api.pc[t] = "serve" => engine.loaded
    /\ (result.op = "api.main" /\ result.status = 200)
           => engine = models_load_data(train_data, TRUE)
    /\ engine.loaded => engine = models_load_data(train_data, TRUE)

\* C18: no request is answered 200 before the load has completed; when
\* init_recommender fails the global recommender is left as it was (unset if
\* it was unset), the request is answered with an error and no list, and no
\* request is ever served from a partly loaded recommender.
C18_NoServingBeforeLoad ==
    /\ []ServedFromLoaded
    /\ [][InitFails => /\ engine' = engine
                       /\ result'.status = 500
                       /\ result'.error # ""
                       /\ result'.recs = <<>>]_vars

\* C18 witness: an initialisation has failed, the request was answered 500 and
\* the recommender is still unset while another thread waits in main
C18_Witness ==
    /\ result = api_init_failed
    /\ ~engine.loaded
    /\ \E t \in Threads : api.pc[t] # "idle"

\* the rows of the user of the last call and the frequency table the code
\* builds from them
UserDf == UserRows(train_data, result.user)

UserCategoryCounts == value_counts(Column(UserDf, "category_id"))

\* C19: with w_category enabled, the category of every interaction iterated
\* in build_user_profile is a key of the user's category-frequency table, the
\* category weight is the user's frequency of that category (the fallback is
\* not taken), and the profile is the one those weights give.
C19_CategoryFallbackNotTaken ==
    (ProfileCall /\ KnownUser)
        => /\ \A i \in DOMAIN UserDf :
                  /\ UserDf[i].category_id \in DOMAIN UserCategoryCounts
                  /\ models_category_weight(UserCategoryCounts, UserDf, UserDf[i])
                         = UserCategoryCounts[UserDf[i].category_id]
                               * Cardinality(DOMAIN UserCategoryCounts)
                  /\ Weighted_category_weight(UserCategoryCounts, UserDf, UserDf[i])
                         = UserCategoryCounts[UserDf[i].category_id]
           /\ result.op = "Weighted.build_user_profile"
                  => obj.w_user_category = UserCategoryCounts
           /\ (result.raised = "" /\ Contributing # <<>>)
                  => \E c \in 1..MaxTrain :
                         result.profile.num =
                             Scale(SpecWeightedSum(IF result.op = "models.build_user_profile"
                                                   THEN engine.split_date
                                                   ELSE obj.split_date), c)

\* C19 witness: a profile was built for a user with clicks in two categories
C19_Witness ==
    /\ ProfileCall /\ KnownUser
    /\ result.raised = ""
    /\ Cardinality(DOMAIN UserCategoryCounts) > 1
    /\ ~IsZero(result.profile.num)

\* C20: under every interleaving of concurrent first requests the process-wide
\* recommender is constructed at most once, and every thread that has reached
\* the call of recommend has that completely constructed recommender.
C20_ConstructedAtMostOnce ==
    /\ api.constructions <= 1
    /\ \A t \in Threads :
           api.pc[t] = "serve" => engine = models_load_data(train_data, TRUE)

====
